---- MODULE Spec2Model ----
(***************************************************************************)
(* Model of the corpus-to-matrix pipeline (src/src/data_utils.py,          *)
(* CorpusProcessor) and of the two scoring classes of                      *)
(* src/src/metrics_utils.py (Similarity, Coherence).                       *)
(*                                                                         *)
(* Real numbers are modelled exactly: a relative frequency is a pair       *)
(* <<num, den>>, comparisons are cross-multiplications, and a value        *)
(* ln(a) / -ln(b) is kept as the pair of rationals (a, b) and compared     *)
(* through the monotonicity of ln.                                         *)
(***************************************************************************)
EXTENDS Integers, Sequences, FiniteSets, TLC

VARIABLES
    pc,                      \* position of the client: "new", "processed", "coherence", "similarity"
    stop_words_arg,          \* the stop_words argument given to CorpusProcessor.__init__
    max_relative_frequency,  \* CorpusProcessor.max_relative_frequency, <<num, den>>
    min_absolute_frequency,  \* CorpusProcessor.min_absolute_frequency
    stop_words,              \* CorpusProcessor.stop_words (a list)
    corpus,                  \* the argument of process, then CorpusProcessor.corpus
    D0,                      \* len(corpus), as assigned to self.D at the start of process
    D,                       \* CorpusProcessor.D
    words_in_corpus,         \* CorpusProcessor.words_in_corpus (insertion-ordered dict)
    counted_words,           \* words_in_corpus as left by _words_in_corpus, before _filter_words
    excluded_words,          \* CorpusProcessor.excluded_words (insertion-ordered dict)
    words_in_vocab,          \* CorpusProcessor.words_in_vocab
    vocab,                   \* CorpusProcessor.vocab, {i: word}
    W,                       \* CorpusProcessor.W
    documents,               \* CorpusProcessor.documents
    dropped,                 \* log_doc_with_no_words_in_vocab of _build_documents
    triples,                 \* the (row, col, data) lists of _vectorize, zipped
    lookup_failed,           \* TRUE iff a words_in_vocab.index(word) of _vectorize raised
    vectorised_documents,    \* CorpusProcessor.vectorised_documents
    pw,                      \* Coherence.pw
    pcoo,                    \* Coherence.pcoo
    call,                    \* the last Coherence / Similarity call and its arguments
    result,                  \* what that call returned or raised
    topic_word,              \* Similarity.topic_word
    topic_word_given,        \* the matrix handed to Similarity.__init__
    K,                       \* Similarity.K
    simW                     \* Similarity.W

vars == <<pc, stop_words_arg, max_relative_frequency, min_absolute_frequency,
          stop_words, corpus, D0, D, words_in_corpus, counted_words, excluded_words,
          words_in_vocab, vocab, W, documents, dropped, triples, lookup_failed,
          vectorised_documents, pw, pcoo, call, result, topic_word,
          topic_word_given, K, simW>>

corpusVars == <<stop_words_arg, max_relative_frequency, min_absolute_frequency,
                stop_words, corpus, D0, D, words_in_corpus, counted_words,
                excluded_words, words_in_vocab, vocab, W, documents, dropped,
                triples, lookup_failed, vectorised_documents>>

coherenceVars == <<pw, pcoo>>

similarityVars == <<topic_word, topic_word_given, K, simW>>

----------------------------------------------------------------------------
(* Bounds and input sets *)

MaxDocs == 2
MaxDocLen == 2

\* The tokens of the bounded corpora; the example corpus adds "bird".
PoolWords == {"cat", "dog"}

\* Lexicographic order of the tokens, the order np.unique sorts by.
WordRank(w) ==
    CASE w = "bird" -> 0
      [] w = "cat" -> 1
      [] w = "dog" -> 2
      [] OTHER -> 3

SeqsUpTo(S, n) == UNION {[1..k -> S] : k \in 0..n}

Docs == SeqsUpTo(PoolWords, MaxDocLen)

ExampleCorpus ==
    << <<"cat", "dog">>, <<"dog", "bird">>, <<"cat", "bird", "dog">> >>

Corpora == SeqsUpTo(Docs, MaxDocs) \cup {ExampleCorpus}

\* max_relative_frequency as <<num, den>>: 0.0 (the default), 0.5, 1.0 and 1.1.
MaxRelFreqs == {<<0, 1>>, <<1, 2>>, <<1, 1>>, <<11, 10>>}
MinAbsFreqs == {0, 1}

NoArg == [given |-> FALSE, words |-> <<>>]
StopWordArgs ==
    {NoArg, [given |-> TRUE, words |-> <<>>], [given |-> TRUE, words |-> <<"dog">>]}

\* Content of data/stop_words_en.txt, split on newlines.
DefaultStopWords == <<"the", "a">>

\* Longest top-word list handed to get_topic_coherence.
MaxTopWords == 2

\* Largest number of topics (rows of a topic-word matrix).
MaxTopics == 3

\* Rows of the topic-word matrices: non-negative weights over two words.
TopicRows == {<<1, 0>>, <<0, 1>>, <<1, 1>>, <<1, 2>>, <<0, 0>>}
\* The width of the topic-word matrices: a vocabulary of the pool words.
TopicWidth == Cardinality(PoolWords)

TopicWordMatrices == SeqsUpTo(TopicRows, MaxTopics)

\* The type argument of model_similarity; "None" is its default.
SimilarityTypes == {"None", "max"}

----------------------------------------------------------------------------
(* Sequences and insertion-ordered dicts (a dict is a sequence of <<key, value>>) *)

Range(s) == {s[i] : i \in 1..Len(s)}

Count(s, x) == Cardinality({i \in 1..Len(s) : s[i] = x})

RECURSIVE SumSeq(_)
SumSeq(s) == IF s = <<>> THEN 0 ELSE s[1] + SumSeq(Tail(s))

DictKeys(d) == [i \in 1..Len(d) |-> d[i][1]]

DictHas(d, k) == \E i \in 1..Len(d) : d[i][1] = k

DictGet(d, k) == d[CHOOSE i \in 1..Len(d) : d[i][1] = k][2]

DictSet(d, k, v) ==
    IF DictHas(d, k)
    THEN [i \in 1..Len(d) |-> IF d[i][1] = k THEN <<k, v>> ELSE d[i]]
    ELSE Append(d, <<k, v>>)

DictPop(d, k) == SelectSeq(d, LAMBDA e : e[1] # k)

----------------------------------------------------------------------------
(* CorpusProcessor *)

\* __init__: "if stop_words:" is false for None and for an empty list alike.
InitStopWords(arg) ==
    IF arg.given /\ Len(arg.words) > 0 THEN arg.words ELSE DefaultStopWords

RECURSIVE SortedSeq(_)
SortedSeq(S) ==
    IF S = {} THEN <<>>
    ELSE LET m == CHOOSE x \in S : \A y \in S : WordRank(x) <= WordRank(y)
         IN  <<m>> \o SortedSeq(S \ {m})

\* A plausible bug: the distinct tokens in order of first occurrence, not sorted.
RECURSIVE FirstSeenUnique(_)
FirstSeenUnique(doc) ==
    IF doc = <<>> THEN <<>>
    ELSE LET rest == FirstSeenUnique(SubSeq(doc, 1, Len(doc) - 1))
             last == doc[Len(doc)]
         IN  IF last \in Range(rest) THEN rest ELSE Append(rest, last)

\* np.unique(doc): the sorted distinct tokens of doc.
NpUnique(doc) == SortedSeq(Range(doc))

\* np.unique(doc, return_counts=True)[1]
NpUniqueCounts(doc) ==
    LET words == NpUnique(doc)
    IN  [i \in 1..Len(words) |-> Count(doc, words[i])]

\* The inner loop of _words_in_corpus over the distinct words of one document.
RECURSIVE CountWords(_, _)
CountWords(words, table) ==
    IF words = <<>> THEN table
    ELSE LET word == Head(words)
         IN  CountWords(Tail(words),
                        IF DictHas(table, word)
                        THEN DictSet(table, word, DictGet(table, word) + 1)
                        ELSE DictSet(table, word, 1))

RECURSIVE CountDocs(_, _)
CountDocs(docs, table) ==
    IF docs = <<>> THEN table
    ELSE CountDocs(Tail(docs), CountWords(NpUnique(Head(docs)), table))

WordsInCorpus(c) == CountDocs(c, <<>>)

\* A plausible bug: a strict comparison at the lower boundary.
IsOutOfFrequencyStrictLow(document_count, selfD, mrf, maf) ==
    LET high_frequency == document_count * mrf[2] >= mrf[1] * selfD
        low_frequency == document_count < maf
    IN  high_frequency \/ low_frequency

\* A plausible bug: a strict comparison at the upper boundary.
IsOutOfFrequencyStrictHigh(document_count, selfD, mrf, maf) ==
    LET high_frequency == document_count * mrf[2] > mrf[1] * selfD
        low_frequency == document_count <= maf
    IN  high_frequency \/ low_frequency

\* _is_out_of_frequency: document_count / self.D >= max_relative_frequency,
\* with max_relative_frequency = mrf[1] / mrf[2] and self.D > 0.
IsOutOfFrequency(document_count, selfD, mrf, maf) ==
    LET high_frequency == document_count * mrf[2] >= mrf[1] * selfD
        low_frequency == document_count <= maf
    IN  high_frequency \/ low_frequency

IsStopWord(word, sw) == word \in Range(sw)

IsOutOfVocab(word, document_count, selfD, mrf, maf, sw) ==
    IsStopWord(word, sw) \/ IsOutOfFrequency(document_count, selfD, mrf, maf)

\* _filter_words: [words_in_corpus, excluded_words] after the two loops.
RECURSIVE PopAll(_, _)
PopAll(table, keys) ==
    IF keys = <<>> THEN table ELSE PopAll(DictPop(table, Head(keys)), Tail(keys))

FilterWords(table, selfD, mrf, maf, sw) ==
    LET excluded == SelectSeq(table,
                       LAMBDA e : IsOutOfVocab(e[1], e[2], selfD, mrf, maf, sw))
    IN  [words_in_corpus |-> PopAll(table, DictKeys(excluded)),
         excluded_words |-> excluded]

\* _create_vocab
CreateVocab(table) ==
    LET wiv == DictKeys(table)
    IN  [words_in_vocab |-> wiv,
         vocab |-> [i \in 0..(Len(wiv) - 1) |-> wiv[i + 1]],
         W |-> Len(wiv)]

RefineDocument(doc, table) == SelectSeq(doc, LAMBDA word : DictHas(table, word))

\* A plausible bug: documents left empty by the refinement are kept.
BuildDocumentsKeepEmpty(c, table) ==
    LET docs == [i \in 1..Len(c) |-> RefineDocument(c[i], table)]
    IN  [documents |-> docs, dropped |-> <<>>, D |-> Len(docs)]

\* _build_documents: the loop over enumerate(self.corpus), then self.D.
RECURSIVE BuildLoop(_, _, _, _, _)
BuildLoop(c, ix, table, docs, logged) ==
    IF ix >= Len(c) THEN [documents |-> docs, dropped |-> logged, D |-> Len(docs)]
    ELSE LET words == RefineDocument(c[ix + 1], table)
         IN  IF Len(words) > 0
             THEN BuildLoop(c, ix + 1, table, Append(docs, words), logged)
             ELSE BuildLoop(c, ix + 1, table, docs, Append(logged, ix))

BuildDocuments(c, table) == BuildLoop(c, 0, table, <<>>, <<>>)

\* list.index raises ValueError for a missing element; NotFound stands for it.
NotFound == -1

\* A plausible bug: 1-based ids.
GetWordIdOneBased(wiv, word) ==
    IF word \in Range(wiv)
    THEN CHOOSE i \in 1..Len(wiv) : wiv[i] = word /\ \A j \in 1..(i - 1) : wiv[j] # word
    ELSE NotFound

\* _get_word_id: self.words_in_vocab.index(word)
GetWordId(wiv, word) ==
    IF word \in Range(wiv)
    THEN (CHOOSE i \in 1..Len(wiv) : wiv[i] = word /\ \A j \in 1..(i - 1) : wiv[j] # word) - 1
    ELSE NotFound

\* The loop of _vectorize: the row, col and data lists, zipped into triples.
RECURSIVE VectorizeLoop(_, _, _, _)
VectorizeLoop(docs, ix, wiv, acc) ==
    IF ix >= Len(docs) THEN acc
    ELSE LET doc == docs[ix + 1]
             words == NpUnique(doc)
             counts == NpUniqueCounts(doc)
             word_ids == [i \in 1..Len(words) |-> GetWordId(wiv, words[i])]
         IN  VectorizeLoop(docs, ix + 1, wiv,
                 acc \o [i \in 1..Len(words) |-> <<ix, word_ids[i], counts[i]>>])

\* csr_matrix((data, (row, col)), shape): entries at the same coordinates are summed.
CsrMatrix(tr, shape) ==
    [shape |-> shape,
     m |-> [p \in (0..(shape[1] - 1)) \X (0..(shape[2] - 1)) |->
               SumSeq([k \in 1..Len(SelectSeq(tr, LAMBDA t : t[1] = p[1] /\ t[2] = p[2]))
                         |-> SelectSeq(tr, LAMBDA t : t[1] = p[1] /\ t[2] = p[2])[k][3]])]]

Vectorize(docs, wiv, selfD, selfW) ==
    LET tr == VectorizeLoop(docs, 0, wiv, <<>>)
    IN  [triples |-> tr,
         lookup_failed |-> \E k \in 1..Len(tr) : tr[k][2] = NotFound,
         vectorised_documents |-> CsrMatrix(tr, <<selfD, selfW>>)]

EmptyMatrix == [shape |-> <<0, 0>>, m |-> [p \in {} |-> 0]]

----------------------------------------------------------------------------
(* Exact arithmetic *)

RECURSIVE Gcd(_, _)
Gcd(a, b) == IF b = 0 THEN a ELSE Gcd(b, a % b)

\* The rational n / d (n >= 0, d > 0) in lowest terms.
Reduce(n, d) == LET g == Gcd(n, d) IN <<n \div g, d \div g>>

RMul(x, y) == Reduce(x[1] * y[1], x[2] * y[2])

\* x / y for y > 0
RDiv(x, y) == Reduce(x[1] * y[2], x[2] * y[1])

RLeq(x, y) == x[1] * y[2] <= y[1] * x[2]

ROne == <<1, 1>>

\* Python floats: nan, or ln(a) / -ln(b) for rationals a > 0 and 0 < b < 1;
\* the int -1 is the sentinel of get_npmi.
NaN == [kind |-> "nan"]
MinusOne == [kind |-> "int", v |-> -1]
LnRatio(a, b) == [kind |-> "lnratio", a |-> a, b |-> b]

\* x == y in Python: nan equals nothing, itself included.
PyEq(x, y) ==
    /\ x.kind # "nan"
    /\ y.kind # "nan"
    /\ \/ x.kind = "int" /\ y.kind = "int" /\ x.v = y.v
       \/ x.kind = "lnratio" /\ y.kind = "lnratio"
            /\ \/ x.a = y.a /\ x.b = y.b
               \/ x.a = ROne /\ y.a = ROne
       \/ x.kind = "lnratio" /\ y.kind = "int" /\ y.v = -1 /\ x.a = x.b
       \/ x.kind = "int" /\ y.kind = "lnratio" /\ x.v = -1 /\ y.a = y.b

\* -1 <= x <= 1, which no nan satisfies: ln(a) / -ln(b) >= -1 iff a >= b, and
\* ln(a) / -ln(b) <= 1 iff a * b <= 1.
InUnitRange(x) ==
    \/ x.kind = "int" /\ -1 <= x.v /\ x.v <= 1
    \/ x.kind = "lnratio" /\ RLeq(x.b, x.a) /\ RLeq(RMul(x.a, x.b), ROne)

----------------------------------------------------------------------------
(* Coherence *)

\* X = counts_vector.copy(); X[X > 0] = 1
Binarize(cv) == [p \in DOMAIN cv.m |-> IF cv.m[p] > 0 THEN 1 ELSE 0]

\* get_marginals: pw = nw / D and pcoo = X^T X / D, each kept as <<count, D>>.
GetMarginals(cv) ==
    LET X == Binarize(cv)
        nDocs == cv.shape[1]
        nWords == cv.shape[2]
    IN  [pw |-> [w \in 0..(nWords - 1) |->
                    <<SumSeq([d \in 1..nDocs |-> X[<<d - 1, w>>]]), nDocs>>],
         pcoo |-> [p \in (0..(nWords - 1)) \X (0..(nWords - 1)) |->
                    <<SumSeq([d \in 1..nDocs |->
                                 X[<<d - 1, p[1]>>] * X[<<d - 1, p[2]>>]]), nDocs>>]]

\* get_npmi: np.log(coo / (pw[ix] * pw[jx])) / -np.log(coo) when coo > 0, else -1.
\* With coo = 1 the divisor is -0.0 and the dividend ln(1) = 0.0: numpy gives nan.
GetNpmi(selfpw, selfpcoo, ix, jx) ==
    LET coo == selfpcoo[<<ix, jx>>]
    IN  IF coo[1] > 0
        THEN LET ratio == RDiv(coo, RMul(selfpw[ix], selfpw[jx]))
                 b == Reduce(coo[1], coo[2])
             IN  IF b = ROne
                 THEN IF ratio = ROne THEN NaN ELSE [kind |-> "inf"]
                 ELSE LnRatio(ratio, b)
        ELSE MinusOne

\* The two loops of get_topic_coherence: the scores of the pairs (i, j), i < j.
RECURSIVE PairScores(_, _, _, _, _)
PairScores(selfpw, selfpcoo, word_indexes, i, j) ==
    IF i >= Len(word_indexes) - 1 THEN <<>>
    ELSE IF j >= Len(word_indexes)
         THEN PairScores(selfpw, selfpcoo, word_indexes, i + 1, i + 2)
         ELSE <<[i |-> i, j |-> j,
                 npmi |-> GetNpmi(selfpw, selfpcoo,
                                  word_indexes[i + 1], word_indexes[j + 1])]>>
              \o PairScores(selfpw, selfpcoo, word_indexes, i, j + 1)

\* float(np.mean(scores)): nan (with a warning, no exception) for an empty list
\* and for a list holding a nan; else the mean, kept as the list of its terms.
NpMeanOfScores(scores) ==
    IF scores = <<>> \/ \E k \in 1..Len(scores) : scores[k].npmi.kind = "nan"
    THEN [kind |-> "nan", pairs |-> scores]
    ELSE [kind |-> "mean", pairs |-> scores]

GetTopicCoherence(selfpw, selfpcoo, word_indexes) ==
    NpMeanOfScores(PairScores(selfpw, selfpcoo, word_indexes, 0, 1))

----------------------------------------------------------------------------
(* Similarity *)

Dot(u, v) == SumSeq([i \in 1..Len(u) |-> u[i] * v[i]])

\* The cosine of two non-negative vectors, kept as its square in lowest terms;
\* sklearn leaves a zero vector unnormalised, which gives 0.
Cosine(u, v) ==
    LET n == Dot(u, u) * Dot(v, v)
    IN  IF n = 0 THEN <<0, 1>> ELSE Reduce(Dot(u, v) * Dot(u, v), n)

ValueError == [kind |-> "ValueError"]

\* sklearn.metrics.pairwise.cosine_similarity(X, Y) for a one-row X: check_array
\* raises ValueError for a Y with no rows.
CosineSimilarity(x, Y) ==
    IF Len(Y) = 0 THEN ValueError
    ELSE [kind |-> "ok", scores |-> [j \in 1..Len(Y) |-> Cosine(x, Y[j])]]

\* np.delete(topic_word, topic_index, axis=0): a copy without that row.
NpDelete(tw, topic_index) ==
    [j \in 1..(Len(tw) - 1) |-> IF j <= topic_index THEN tw[j] ELSE tw[j + 1]]

\* A plausible bug: the topic's own row is left among the rows compared.
GetSimilarityWithSelf(tw, topic_index) ==
    CosineSimilarity(tw[topic_index + 1], tw)

\* get_similarity
GetSimilarity(tw, topic_index) ==
    LET word_distribution_i == tw[topic_index + 1]
        word_distribution_js == NpDelete(tw, topic_index)
    IN  CosineSimilarity(word_distribution_i, word_distribution_js)

\* np.mean and np.max of a non-empty row of cosines; the mean is kept as the
\* list of its terms.
NpMean(scores) == [agg |-> "mean", terms |-> scores]

NpMax(scores) ==
    [agg |-> "max",
     terms |-> <<CHOOSE c \in Range(scores) : \A x \in Range(scores) : RLeq(x, c)>>]

\* model_similarity: the loop over range(self.K); an exception of
\* get_similarity ends the call.
RECURSIVE SimilarityLoop(_, _, _, _, _)
SimilarityLoop(tw, selfK, type, k, topic_similarity) ==
    IF k >= selfK THEN [kind |-> "ok", value |-> topic_similarity]
    ELSE LET similarity_scores == GetSimilarity(tw, k)
         IN  IF similarity_scores.kind # "ok" THEN similarity_scores
             ELSE LET similarity == IF type = "max"
                                    THEN NpMax(similarity_scores.scores)
                                    ELSE NpMean(similarity_scores.scores)
                  IN  SimilarityLoop(tw, selfK, type, k + 1,
                                     Append(topic_similarity, similarity))

ModelSimilarity(tw, selfK, type) == SimilarityLoop(tw, selfK, type, 0, <<>>)

----------------------------------------------------------------------------
(* State machine of the corpus pipeline *)

NoCall == [op |-> "none"]
NoResult == [kind |-> "none"]

IdleCoherence ==
    /\ pw = <<>>
    /\ pcoo = <<>>

IdleSimilarity ==
    /\ topic_word = <<>>
    /\ topic_word_given = <<>>
    /\ K = 0
    /\ simW = 0

\* The state after CorpusProcessor(max_relative_frequency, min_absolute_frequency,
\* stop_words), with the corpus the client is about to pass to process.
Init ==
    /\ pc = "new"
    /\ stop_words_arg \in StopWordArgs
    /\ max_relative_frequency \in MaxRelFreqs
    /\ min_absolute_frequency \in MinAbsFreqs
    /\ stop_words = InitStopWords(stop_words_arg)
    /\ corpus \in Corpora
    /\ D0 = 0
    /\ D = 0
    /\ words_in_corpus = <<>>
    /\ counted_words = <<>>
    /\ excluded_words = <<>>
    /\ words_in_vocab = <<>>
    /\ vocab = <<>>
    /\ W = 0
    /\ documents = <<>>
    /\ dropped = <<>>
    /\ triples = <<>>
    /\ lookup_failed = FALSE
    /\ vectorised_documents = EmptyMatrix
    /\ IdleCoherence
    /\ IdleSimilarity
    /\ call = NoCall
    /\ result = NoResult

\* CorpusProcessor.process(corpus), with every method it calls.
Process ==
    /\ pc = "new"
    /\ LET selfD == Len(corpus)
           counted == WordsInCorpus(corpus)
           filtered == FilterWords(counted, selfD, max_relative_frequency,
                                   min_absolute_frequency, stop_words)
           voc == CreateVocab(filtered.words_in_corpus)
           built == BuildDocuments(corpus, filtered.words_in_corpus)
           vec == Vectorize(built.documents, voc.words_in_vocab, built.D, voc.W)
       IN  /\ D0' = selfD
           /\ counted_words' = counted
           /\ words_in_corpus' = filtered.words_in_corpus
           /\ excluded_words' = filtered.excluded_words
           /\ words_in_vocab' = voc.words_in_vocab
           /\ vocab' = voc.vocab
           /\ W' = voc.W
           /\ documents' = built.documents
           /\ dropped' = built.dropped
           /\ D' = built.D
           /\ triples' = vec.triples
           /\ lookup_failed' = vec.lookup_failed
           /\ vectorised_documents' = vec.vectorised_documents
    /\ pc' = "processed"
    /\ UNCHANGED <<stop_words_arg, max_relative_frequency, min_absolute_frequency,
                   stop_words, corpus, call, result>>
    /\ UNCHANGED coherenceVars
    /\ UNCHANGED similarityVars

Next == Process

Spec == Init /\ [][Next]_vars

----------------------------------------------------------------------------
(* State machine of the coherence scorer, fed by the pipeline *)

\* Coherence(cp.get_vectorised_documents()): __init__ and get_marginals. With
\* no row, get_marginals divides by zero; the model covers the matrices with
\* at least one row.
NewCoherence ==
    /\ pc = "processed"
    /\ vectorised_documents.shape[1] > 0
    /\ LET marginals == GetMarginals(vectorised_documents)
       IN  /\ pw' = marginals.pw
           /\ pcoo' = marginals.pcoo
    /\ pc' = "coherence"
    /\ UNCHANGED corpusVars
    /\ UNCHANGED similarityVars
    /\ UNCHANGED <<call, result>>

\* Coherence.get_npmi(ix, jx) for word ids of the matrix.
CallGetNpmi(ix, jx) ==
    /\ pc = "coherence"
    /\ call' = [op |-> "get_npmi", ix |-> ix, jx |-> jx]
    /\ result' = GetNpmi(pw, pcoo, ix, jx)
    /\ UNCHANGED pc
    /\ UNCHANGED corpusVars
    /\ UNCHANGED coherenceVars
    /\ UNCHANGED similarityVars

\* Coherence.get_topic_coherence(word_indexes)
CallGetTopicCoherence(word_indexes) ==
    /\ pc = "coherence"
    /\ call' = [op |-> "get_topic_coherence", word_indexes |-> word_indexes]
    /\ result' = GetTopicCoherence(pw, pcoo, word_indexes)
    /\ UNCHANGED pc
    /\ UNCHANGED corpusVars
    /\ UNCHANGED coherenceVars
    /\ UNCHANGED similarityVars

WordIds == 0..(vectorised_documents.shape[2] - 1)

NextCoherence ==
    \/ Process
    \/ NewCoherence
    \/ \E ix, jx \in WordIds : CallGetNpmi(ix, jx)
    \/ \E word_indexes \in SeqsUpTo(WordIds, MaxTopWords) :
           CallGetTopicCoherence(word_indexes)

SpecCoherence == Init /\ [][NextCoherence]_vars

----------------------------------------------------------------------------
(* State machine of the similarity scorer *)

\* The state after Similarity(topic_word); no corpus is involved.
InitSimilarity ==
    /\ pc = "similarity"
    /\ stop_words_arg = NoArg
    /\ max_relative_frequency = <<0, 1>>
    /\ min_absolute_frequency = 0
    /\ stop_words = InitStopWords(NoArg)
    /\ corpus = <<>>
    /\ D0 = 0
    /\ D = 0
    /\ words_in_corpus = <<>>
    /\ counted_words = <<>>
    /\ excluded_words = <<>>
    /\ words_in_vocab = <<>>
    /\ vocab = <<>>
    /\ W = 0
    /\ documents = <<>>
    /\ dropped = <<>>
    /\ triples = <<>>
    /\ lookup_failed = FALSE
    /\ vectorised_documents = EmptyMatrix
    /\ IdleCoherence
    /\ topic_word_given \in TopicWordMatrices
    /\ topic_word = topic_word_given
    /\ K = Len(topic_word_given)
    /\ simW = TopicWidth
    /\ call = NoCall
    /\ result = NoResult

\* Similarity.model_similarity(type)
CallModelSimilarity(type) ==
    /\ pc = "similarity"
    /\ call' = [op |-> "model_similarity", type |-> type]
    /\ result' = ModelSimilarity(topic_word, K, type)
    /\ UNCHANGED pc
    /\ UNCHANGED corpusVars
    /\ UNCHANGED coherenceVars
    /\ UNCHANGED similarityVars

NextSimilarity == \E type \in SimilarityTypes : CallModelSimilarity(type)

SpecSimilarity == InitSimilarity /\ [][NextSimilarity]_vars

----------------------------------------------------------------------------
(* Vocabulary of the claims, stated over the corpus and not over the      *)
(* pipeline's intermediate tables.                                         *)

Processed == pc # "new"

CorpusWords == UNION {Range(corpus[i]) : i \in 1..Len(corpus)}

\* Document frequency: the number of documents containing w at least once.
DocFreq(w) == Cardinality({i \in 1..Len(corpus) : w \in Range(corpus[i])})

VocabWords == {vocab[i] : i \in DOMAIN vocab}

WordId(w) == CHOOSE i \in DOMAIN vocab : vocab[i] = w

FirstDoc(w) ==
    CHOOSE i \in 1..Len(corpus) :
        /\ w \in Range(corpus[i])
        /\ \A j \in 1..(i - 1) : w \notin Range(corpus[j])

FirstToken(w) ==
    CHOOSE k \in 1..Len(corpus[FirstDoc(w)]) :
        /\ corpus[FirstDoc(w)][k] = w
        /\ \A j \in 1..(k - 1) : corpus[FirstDoc(w)][j] # w

\* a is first seen before b, scanning documents in order and tokens in order.
SeenBefore(a, b) ==
    \/ FirstDoc(a) < FirstDoc(b)
    \/ FirstDoc(a) = FirstDoc(b) /\ FirstToken(a) < FirstToken(b)

\* a is counted before b: earlier first document, or the same first document
\* and a sorts before b.
CountedBefore(a, b) ==
    \/ FirstDoc(a) < FirstDoc(b)
    \/ FirstDoc(a) = FirstDoc(b) /\ WordRank(a) < WordRank(b)

VocabIsBijection ==
    /\ DOMAIN vocab = 0..(W - 1)
    /\ \A i, j \in DOMAIN vocab : vocab[i] = vocab[j] => i = j
    /\ VocabWords = Range(DictKeys(words_in_corpus))

Entry(d, w) == vectorised_documents.m[<<d, w>>]

Rows == vectorised_documents.shape[1]
Cols == vectorised_documents.shape[2]

RowSum(d) == SumSeq([c \in 1..Cols |-> Entry(d, c - 1)])

\* The original documents that keep at least one in-vocabulary token.
KeptDocs == {i \in 1..Len(corpus) : Range(corpus[i]) \cap VocabWords # {}}

RECURSIVE KeptRefined(_)
KeptRefined(n) ==
    IF n = 0 THEN <<>>
    ELSE IF n \in KeptDocs
         THEN Append(KeptRefined(n - 1),
                     SelectSeq(corpus[n], LAMBDA w : w \in VocabWords))
         ELSE KeptRefined(n - 1)

----------------------------------------------------------------------------
(* C1 *)

----------------------------------------------------------------------------
(* C2 *)

\* C2 as claimed: ids follow first-seen order, tokens scanned in their order
\* within each document, and the id-to-word mapping is a bijection.
C2_FirstSeenTokenOrder ==
    Processed =>
        /\ VocabIsBijection
        /\ \A a, b \in VocabWords : SeenBefore(a, b) => WordId(a) < WordId(b)

\* C2 amended: ids follow the order of the first document containing the word,
\* and within one document the sorted order of the words; the id-to-word
\* mapping is a bijection onto the surviving words.
C2_FirstDocThenSortedOrder ==
    Processed =>
        /\ VocabIsBijection
        /\ \A a, b \in VocabWords : CountedBefore(a, b) => WordId(a) < WordId(b)

\* Two surviving words first occur in the same document, in unsorted order.
C2_Witness ==
    /\ Processed
    /\ \E a, b \in VocabWords :
           /\ FirstDoc(a) = FirstDoc(b)
           /\ FirstToken(a) < FirstToken(b)
           /\ WordRank(b) < WordRank(a)
           /\ WordId(b) < WordId(a)

----------------------------------------------------------------------------
(* C3 *)

ExampleConfig ==
    /\ corpus = ExampleCorpus
    /\ stop_words_arg.words = <<>>
    /\ max_relative_frequency = <<1, 1>>
    /\ min_absolute_frequency = 0

ExampleFrequencies ==
    /\ DictKeys(counted_words) = <<"cat", "dog", "bird">>
    /\ DictGet(counted_words, "cat") = 2
    /\ DictGet(counted_words, "dog") = 3
    /\ DictGet(counted_words, "bird") = 2

----------------------------------------------------------------------------
(* C4 *)

\* C4: every row of the matrix has a nonzero entry, the rows are the original
\* documents that keep an in-vocabulary token, in order, and D <= D_original.
C4_RowCompleteness ==
    Processed =>
        /\ \A d \in 0..(Rows - 1) : \E w \in 0..(Cols - 1) : Entry(d, w) > 0
        /\ Rows = Cardinality(KeptDocs)
        /\ documents = KeptRefined(Len(corpus))
        /\ D = Len(documents)
        /\ D <= Len(corpus)

\* A non-empty document lost all its tokens and was dropped, ahead of a
\* document that was kept with fewer tokens than it had.
C4_Witness ==
    /\ Processed
    /\ \E i, j \in 1..Len(corpus) :
           /\ i < j
           /\ i \notin KeptDocs /\ corpus[i] # <<>>
           /\ j \in KeptDocs /\ Len(documents[1]) < Len(corpus[j])
    /\ Rows = 1

----------------------------------------------------------------------------
(* C5 *)

\* C5: _vectorize emits exactly one triple (d, id(w), count of w in d) for every
\* surviving document d and distinct word w of d, within the bounds of the
\* shape, no two at the same coordinates; the matrix holds the term counts and
\* no word-id lookup fails.
C5_Triples ==
    Processed =>
        /\ ~lookup_failed
        /\ vectorised_documents.shape = <<D, W>>
        /\ \A k \in 1..Len(triples) :
               /\ 0 <= triples[k][1] /\ triples[k][1] < D
               /\ 0 <= triples[k][2] /\ triples[k][2] < W
        /\ \A k, l \in 1..Len(triples) :
               (triples[k][1] = triples[l][1] /\ triples[k][2] = triples[l][2])
                   => k = l
        /\ \A d \in 0..(D - 1) : \A w \in Range(documents[d + 1]) :
               \E k \in 1..Len(triples) :
                   triples[k] = <<d, WordId(w), Count(documents[d + 1], w)>>
        /\ Len(triples)
               = SumSeq([d \in 1..D |-> Cardinality(Range(documents[d]))])
        /\ \A d \in 0..(D - 1) : \A i \in 0..(W - 1) :
               Entry(d, i) = Count(documents[d + 1], vocab[i])

\* A surviving document repeats a word, and the vocabulary holds a second
\* word, found in another document.
C5_Witness ==
    /\ Processed
    /\ ~lookup_failed
    /\ \E d, e \in 0..(D - 1) : \E i, j \in 0..(W - 1) :
           /\ i # j
           /\ Entry(d, i) >= 2
           /\ Entry(e, j) >= 1

----------------------------------------------------------------------------
(* C6 *)

\* The surviving documents that contain both word i and word j.
DocsWithBoth(i, j) ==
    {d \in 1..Len(documents) :
        vocab[i] \in Range(documents[d]) /\ vocab[j] \in Range(documents[d])}

NpmiReturned == pc = "coherence" /\ call.op = "get_npmi"

\* C6: get_npmi(i, j) == get_npmi(j, i); get_npmi(i, j) is -1 iff no document
\* contains both words; pcoo[i, j] is the fraction of documents containing both.
C6_NpmiSymmetryAndSentinel ==
    NpmiReturned =>
        /\ PyEq(result, GetNpmi(pw, pcoo, call.jx, call.ix))
        /\ PyEq(result, MinusOne) <=> DocsWithBoth(call.ix, call.jx) = {}
        /\ pcoo[<<call.ix, call.jx>>]
               = <<Cardinality(DocsWithBoth(call.ix, call.jx)), Len(documents)>>

----------------------------------------------------------------------------
(* C7 *)

SimilarityReturned == pc = "similarity" /\ call.op = "model_similarity"

OtherTopics(k) == (0..(K - 1)) \ {k}

CosineOfTopics(k, other) ==
    Cosine(topic_word_given[k + 1], topic_word_given[other + 1])

\* C7: for K >= 2, model_similarity returns K scores; the score of topic k is
\* the mean (the max when type == "max") of exactly the K-1 cosines of row k
\* with each other row, never with itself; the input matrix is not modified.
C7_SimilaritySelfExclusion ==
    (SimilarityReturned /\ K >= 2) =>
        /\ result.kind = "ok"
        /\ Len(result.value) = K
        /\ topic_word = topic_word_given
        /\ \A k \in 0..(K - 1) :
               LET score == result.value[k + 1]
                   cosines == {CosineOfTopics(k, other) : other \in OtherTopics(k)}
               IN  IF call.type = "max"
                   THEN /\ score.agg = "max"
                        /\ Len(score.terms) = 1
                        /\ score.terms[1] \in cosines
                        /\ \A c \in cosines : RLeq(c, score.terms[1])
                   ELSE /\ score.agg = "mean"
                        /\ Len(score.terms) = K - 1
                        /\ \A c \in cosines \cup Range(score.terms) :
                               Count(score.terms, c)
                                   = Cardinality({other \in OtherTopics(k) :
                                                     CosineOfTopics(k, other) = c})

\* Three topics, scored with "max"; one of them is less than parallel to both
\* others, so that its own row would have changed its score.
C7_Witness ==
    /\ SimilarityReturned
    /\ K = 3
    /\ call.type = "max"
    /\ result.kind = "ok"
    /\ \E k \in 1..3 :
           /\ result.value[k].terms[1] # ROne
           /\ result.value[k].terms[1] # <<0, 1>>

----------------------------------------------------------------------------
(* C8 *)

TopicCoherenceReturned == pc = "coherence" /\ call.op = "get_topic_coherence"

\* C8: get_topic_coherence with fewer than 2 word ids ends in an explicit error
\* and returns no undefined number; with N >= 2 it averages the NPMI of the
\* N(N-1)/2 pairs i < j, each once.
C8_InsufficientWords ==
    TopicCoherenceReturned =>
        LET N == Len(call.word_indexes)
        IN  /\ N < 2 => result.kind = "error"
            /\ N >= 2 =>
                   /\ Len(result.pairs) * 2 = N * (N - 1)
                   /\ \A i, j \in 0..(N - 1) :
                          i < j => Cardinality({k \in 1..Len(result.pairs) :
                                       /\ result.pairs[k].i = i
                                       /\ result.pairs[k].j = j}) = 1

----------------------------------------------------------------------------
(* C9 *)

\* C9: model_similarity on a matrix with K < 2 topics ends in an error and
\* returns no empty or undefined result.
C9_TooFewTopics ==
    (SimilarityReturned /\ K < 2) => result.kind \notin {"ok", "none"}

----------------------------------------------------------------------------
(* C10 *)

\* C10: on a matrix produced by process (max_relative_frequency within [0,1]),
\* get_npmi(i, j) for distinct word ids is a defined value within [-1, 1]: the
\* divisor -ln(pcoo[i,j]) is never zero.
C10_NpmiDefinedInRange ==
    (/\ NpmiReturned
     /\ call.ix # call.jx
     /\ RLeq(max_relative_frequency, ROne)) => InUnitRange(result)

----------------------------------------------------------------------------
(* C11 *)

\* C11: a CorpusProcessor given a stop-word collection uses exactly that
\* collection as its stop words, also when the collection is empty: with
\* stop_words = [] the default file is not read and no word is excluded for
\* being a stop word.
C11_ExplicitStopWordsUsed ==
    /\ stop_words_arg.given => stop_words = stop_words_arg.words
    /\ (Processed /\ stop_words_arg.given /\ stop_words_arg.words = <<>>) =>
           \A w \in CorpusWords : ~IsStopWord(w, stop_words)

====
